---- MODULE Spec2Model ----
(***************************************************************************)
(* Scalable Bloom Filter (src/scalable.go): a series of partitioned Bloom  *)
(* filters with geometrically decreasing target false-positive rates.      *)
(*                                                                         *)
(* float64 values are modelled as exact rationals <<num, den>>, den > 0.   *)
(* Elements ([]byte) are modelled as the integers 1..MaxElem.              *)
(* The PartitionedBloomFilter type and the package constant fillRatio are  *)
(* not part of src/scalable.go; they are modelled from the Partitioned     *)
(* Filter Contract of the specification (section 6).                       *)
(***************************************************************************)
EXTENDS Integers, Sequences, FiniteSets, TLC

VARIABLES filters, r, fp, p, hint, added, op, calls

vars == <<filters, r, fp, p, hint, added, op, calls>>

----------------------------------------------------------------------------
(* Bounds of the model *)

\* number of distinct elements offered to Add / Test
MaxElem == 2

\* Add is not taken when it would append beyond this many filters
MaxFilters == 3

Elems == 1..MaxElem

\* size hints, target rates and tightening ratios a series is built with
Hints == {1, 2}

Rates == {<<1, 2>>, <<1, 4>>}

Ratios == {<<1, 2>>, <<4, 5>>}

\* arguments the constructor accepts without complaint although the
\* documented constraints exclude them
BadHints == {0}

BadRates == {<<1, 1>>, <<3, 2>>}

BadRatios == {<<1, 1>>, <<3, 2>>}

----------------------------------------------------------------------------
(* float64 arithmetic, as exact rationals *)

RMul(a, b) == <<a[1] * b[1], a[2] * b[2]>>

RAdd(a, b) == <<a[1] * b[2] + b[1] * a[2], a[2] * b[2]>>

RLe(a, b) == a[1] * b[2] <= b[1] * a[2]

RLt(a, b) == a[1] * b[2] < b[1] * a[2]

REq(a, b) == a[1] * b[2] = b[1] * a[2]

\* x / n for an integer n > 0
RDivInt(a, n) == <<a[1], a[2] * n>>

RECURSIVE IPow(_, _)
IPow(b, n) == IF n = 0 THEN 1 ELSE b * IPow(b, n - 1)

\* math.Pow(x, float64(n)) for a natural n
Pow(x, n) == <<IPow(x[1], n), IPow(x[2], n)>>

CeilDiv(a, b) == (a + b - 1) \div b

----------------------------------------------------------------------------
(* The partitioned filter (external collaborator) *)

\* the package constant fillRatio: the fill ratio at which a filter is full
fillRatio == <<1, 2>>

\* number of hash functions for a target rate: ceil(log2(1 / fpRate)),
\* the least k with fpRate * 2^k >= 1
RECURSIVE OptimalKFrom(_, _)
OptimalKFrom(fpRate, k) ==
  IF fpRate[1] * IPow(2, k) >= fpRate[2] THEN k ELSE OptimalKFrom(fpRate, k + 1)

OptimalK(fpRate) == OptimalKFrom(fpRate, 0)

\* number of bits for n elements at a target rate: n * log2(1/fpRate) / ln 2,
\* with log2(1/fpRate) rounded up to the hash count and 1 / ln 2 taken as 13/9
OptimalM(n, fpRate) == CeilDiv(n * OptimalK(fpRate) * 13, 9)

\* construct(sizeHint, falsePositiveRate): k partitions of s bits each, empty.
\* fpRate records the rate the filter was constructed with.
NewPartitionedBloomFilter(n, fpRate) ==
  LET m == OptimalM(n, fpRate)
      k == OptimalK(fpRate)
      s == IF k = 0 THEN 0 ELSE CeilDiv(m, k)
  IN [fpRate |-> fpRate, m |-> m, k |-> k, s |-> s, n |-> 0,
      partitions |-> [i \in 1..k |-> {}]]

\* the two hash kernels of an element
Lower(data) == (data - 1) \div 2

Upper(data) == data

\* bit of partition i (0-based) the element maps to
BitIndex(f, data, i) == (Lower(data) + Upper(data) * i) % f.s

PbfCapacity(f) == f.m

PbfK(f) == f.k

\* fraction of bits set, averaged over the partitions
PbfFillRatio(f) ==
  LET RECURSIVE Bits(_)
      Bits(i) == IF i = 0 THEN 0 ELSE Cardinality(f.partitions[i]) + Bits(i - 1)
  IN <<Bits(f.k), f.s * f.k>>

\* estimated occupancy of a partition of s slots after n insertions:
\* 1 - (1 - 1/s)^n
PbfEstimatedFillRatio(f) ==
  <<IPow(f.s, f.n) - IPow(f.s - 1, f.n), IPow(f.s, f.n)>>

PbfTest(f, data) ==
  \A i \in 0..(f.k - 1) : BitIndex(f, data, i) \in f.partitions[i + 1]

PbfAdd(f, data) ==
  [f EXCEPT !.partitions =
              [i \in 1..f.k |-> f.partitions[i] \cup {BitIndex(f, data, i - 1)}],
            !.n = f.n + 1]

----------------------------------------------------------------------------
(* The scalable filter: pure parts of its methods *)

\* addFilter assigning a one-filter slice instead of appending
addFilterOn_replace(h, f, q, fs) ==
  <<NewPartitionedBloomFilter(h, RMul(f, Pow(q, Len(fs))))>>

\* addFilter with the exponent taken after the append
addFilterOn_offByOne(h, f, q, fs) ==
  Append(fs, NewPartitionedBloomFilter(h, RMul(f, Pow(q, Len(fs) + 1))))

\* addFilter putting the new filter in front of the slice
addFilterOn_prepend(h, f, q, fs) ==
  <<NewPartitionedBloomFilter(h, RMul(f, Pow(q, Len(fs))))>> \o fs

\* addFilter: append a filter whose target rate is fp * r^len(filters)
\* (h, f, q are the receiver's hint, fp and r fields)
addFilterOn(h, f, q, fs) ==
  LET fpRate == RMul(f, Pow(q, Len(fs)))
  IN Append(fs, NewPartitionedBloomFilter(h, fpRate))

addFilter(fs) == addFilterOn(hint, fp, r, fs)

\* Capacity assigning instead of accumulating in its loop
CapacityOf_lastOnly(fs) == PbfCapacity(fs[Len(fs)])

\* Capacity: the sum of the filters' capacities
RECURSIVE CapacitySum(_, _)
CapacitySum(fs, i) ==
  IF i = 0 THEN 0 ELSE CapacitySum(fs, i - 1) + PbfCapacity(fs[i])

CapacityOf(fs) == CapacitySum(fs, Len(fs))

\* K reading the newest filter instead of the first
KOf_last(fs) == PbfK(fs[Len(fs)])

\* K: the hash count of the first filter
KOf(fs) == PbfK(fs[1])

\* FillRatio weighting each filter's fill ratio by its capacity
RECURSIVE WeightedFillSum(_, _)
WeightedFillSum(fs, i) ==
  IF i = 0 THEN <<0, 1>>
  ELSE RAdd(WeightedFillSum(fs, i - 1),
            RMul(<<PbfCapacity(fs[i]), 1>>, PbfFillRatio(fs[i])))

RECURSIVE TotalCapacity(_, _)
TotalCapacity(fs, i) ==
  IF i = 0 THEN 0 ELSE TotalCapacity(fs, i - 1) + PbfCapacity(fs[i])

FillRatioOf_capacityWeighted(fs) ==
  RDivInt(WeightedFillSum(fs, Len(fs)), TotalCapacity(fs, Len(fs)))

\* FillRatio: the sum of the filters' fill ratios over the number of filters
RECURSIVE FillSum(_, _)
FillSum(fs, i) ==
  IF i = 0 THEN <<0, 1>> ELSE RAdd(FillSum(fs, i - 1), PbfFillRatio(fs[i]))

FillRatioOf(fs) == RDivInt(FillSum(fs, Len(fs)), Len(fs))

\* Test returning false inside the loop, after the first filter
TestResult_firstOnly(fs, data) == PbfTest(fs[1], data)

\* Test: scan the filters in order, return true at the first that reports
\* membership, false when none does
RECURSIVE TestFrom(_, _, _)
TestFrom(fs, data, i) ==
  IF i > Len(fs) THEN FALSE
  ELSE IF PbfTest(fs[i], data) THEN TRUE
  ELSE TestFrom(fs, data, i + 1)

TestResult(fs, data) == TestFrom(fs, data, 1)

\* Add's condition reading filters[0] instead of filters[idx]
LastIsFull_first(fs) == RLe(p, PbfEstimatedFillRatio(fs[1]))

\* Add's condition with > in place of >=
LastIsFull_strict(fs) == RLt(p, PbfEstimatedFillRatio(fs[Len(fs)]))

\* the condition of Add's if: the last filter has reached its fill ratio
LastIsFull(fs) == RLe(p, PbfEstimatedFillRatio(fs[Len(fs)]))

\* Add checking the fill ratio after the insertion instead of before it
AddResult_growAfter(fs, data) ==
  LET gs == [fs EXCEPT ![Len(fs)] = PbfAdd(fs[Len(fs)], data)]
  IN IF LastIsFull(gs) THEN addFilter(gs) ELSE gs

\* Add without the idx++ after addFilter
AddResult_oldIdx(fs, data) ==
  LET grow == LastIsFull(fs)
      gs   == IF grow THEN addFilter(fs) ELSE fs
  IN [gs EXCEPT ![Len(fs)] = PbfAdd(gs[Len(fs)], data)]

\* Add: append a filter when the last one is full, then insert into
\* filters[idx]
AddResult(fs, data) ==
  LET grow == LastIsFull(fs)
      gs   == IF grow THEN addFilter(fs) ELSE fs
      idx  == IF grow THEN Len(fs) + 1 ELSE Len(fs)
  IN [gs EXCEPT ![idx] = PbfAdd(gs[idx], data)]

\* Add can be taken within the model's bound on the number of filters
CanAdd(fs) == fs # <<>> /\ (LastIsFull(fs) => Len(fs) < MaxFilters)

----------------------------------------------------------------------------
(* Two Add calls in flight without locking.  calls holds, per caller, the
   position in Add / addFilter (pc), the argument (data), the local idx, the
   length read at line 141 (n), the slice read at line 142 (sl) and whether
   the caller appended (grew); start is s.filters when the calls began, and
   overlap tells whether a caller took a step while the other was between
   its first and its last step. *)

Callers == {1, 2}

Other(c) == 3 - c

NoCalls ==
  [pc |-> <<"idle", "idle">>, data |-> <<0, 0>>, idx |-> <<0, 0>>,
   n |-> <<0, 0>>, sl |-> << <<>>, <<>> >>, grew |-> <<FALSE, FALSE>>,
   start |-> <<>>, overlap |-> FALSE]

----------------------------------------------------------------------------
(* Operations *)

\* the documented constraints on the constructor's arguments
ValidParams(h, f, q) ==
  /\ h > 0
  /\ RLt(<<0, 1>>, f) /\ RLt(f, <<1, 1>>)
  /\ RLt(<<0, 1>>, q) /\ RLt(q, <<1, 1>>)

\* NewScalableBloomFilter(hint, fpRate, r): no argument is inspected
NewScalableBloomFilter(h, fpRate, q) ==
  /\ filters = <<>>
  /\ r' = q
  /\ fp' = fpRate
  /\ p' = fillRatio
  /\ hint' = h
  /\ filters' = addFilterOn(h, fpRate, q, <<>>)
  /\ added' = {}
  /\ op' = [name |-> "New", data |-> 0, ret |-> "s"]
  /\ UNCHANGED calls

Capacity ==
  /\ filters # <<>>
  /\ op' = [name |-> "Capacity", data |-> 0, ret |-> CapacityOf(filters)]
  /\ UNCHANGED <<filters, r, fp, p, hint, added, calls>>

K ==
  /\ filters # <<>>
  /\ op' = [name |-> "K", data |-> 0, ret |-> KOf(filters)]
  /\ UNCHANGED <<filters, r, fp, p, hint, added, calls>>

FillRatio ==
  /\ filters # <<>>
  /\ op' = [name |-> "FillRatio", data |-> 0, ret |-> FillRatioOf(filters)]
  /\ UNCHANGED <<filters, r, fp, p, hint, added, calls>>

\* Test appending a filter when it finds the last one full
Test_grows(data) ==
  /\ filters # <<>>
  /\ op' = [name |-> "Test", data |-> data, ret |-> TestResult(filters, data)]
  /\ filters' = IF LastIsFull(filters) THEN addFilter(filters) ELSE filters
  /\ UNCHANGED <<r, fp, p, hint, added, calls>>

Test(data) ==
  /\ filters # <<>>
  /\ op' = [name |-> "Test", data |-> data, ret |-> TestResult(filters, data)]
  /\ UNCHANGED <<filters, r, fp, p, hint, added, calls>>

\* Add tightening s.fp in place when it appends
Add_tightensInPlace(data) ==
  /\ CanAdd(filters)
  /\ filters' = AddResult(filters, data)
  /\ added' = added \cup {data}
  /\ op' = [name |-> "Add", data |-> data, ret |-> "s"]
  /\ fp' = IF LastIsFull(filters) THEN RMul(fp, r) ELSE fp
  /\ UNCHANGED <<r, p, hint, calls>>

Add(data) ==
  /\ CanAdd(filters)
  /\ filters' = AddResult(filters, data)
  /\ added' = added \cup {data}
  /\ op' = [name |-> "Add", data |-> data, ret |-> "s"]
  /\ UNCHANGED <<r, fp, p, hint, calls>>

\* TestAndAdd testing after the insertion
TestAndAdd_testAfter(data) ==
  /\ CanAdd(filters)
  /\ filters' = AddResult(filters, data)
  /\ added' = added \cup {data}
  /\ op' = [name |-> "TestAndAdd", data |-> data,
            ret |-> TestResult(AddResult(filters, data), data)]
  /\ UNCHANGED <<r, fp, p, hint, calls>>

\* member := s.Test(data); s.Add(data); return member
TestAndAdd(data) ==
  LET member == TestResult(filters, data)
  IN /\ CanAdd(filters)
     /\ filters' = AddResult(filters, data)
     /\ added' = added \cup {data}
     /\ op' = [name |-> "TestAndAdd", data |-> data, ret |-> member]
     /\ UNCHANGED <<r, fp, p, hint, calls>>

\* Reset without the addFilter call
Reset_noAddFilter ==
  /\ filters # <<>>
  /\ filters' = <<>>
  /\ added' = {}
  /\ op' = [name |-> "Reset", data |-> added, ret |-> "s"]
  /\ UNCHANGED <<r, fp, p, hint, calls>>

\* Reset appending without emptying the slice first
Reset_noClear ==
  /\ filters # <<>>
  /\ filters' = addFilter(filters)
  /\ added' = {}
  /\ op' = [name |-> "Reset", data |-> added, ret |-> "s"]
  /\ UNCHANGED <<r, fp, p, hint, calls>>

\* s.filters = empty slice; s.addFilter().  op.data records the elements
\* whose membership the Reset discards.
Reset ==
  /\ filters # <<>>
  /\ filters' = addFilter(<<>>)
  /\ added' = {}
  /\ op' = [name |-> "Reset", data |-> added, ret |-> "s"]
  /\ UNCHANGED <<r, fp, p, hint, calls>>

----------------------------------------------------------------------------
(* Specifications *)

\* the zero value, before NewScalableBloomFilter has run
Unconstructed ==
  /\ filters = <<>>
  /\ r = <<0, 1>> /\ fp = <<0, 1>> /\ p = <<0, 1>> /\ hint = 0
  /\ added = {}
  /\ op = [name |-> "none", data |-> 0, ret |-> "s"]
  /\ calls = NoCalls

\* a series as NewScalableBloomFilter returns it for arguments that meet
\* the documented constraints
Init ==
  \E h \in Hints, f \in Rates, q \in Ratios :
    /\ r = q
    /\ fp = f
    /\ p = fillRatio
    /\ hint = h
    /\ filters = addFilterOn(h, f, q, <<>>)
    /\ added = {}
    /\ op = [name |-> "New", data |-> 0, ret |-> "s"]
    /\ calls = NoCalls

Next ==
  \/ \E data \in Elems : Add(data)
  \/ \E data \in Elems : Test(data)
  \/ \E data \in Elems : TestAndAdd(data)
  \/ Reset
  \/ Capacity
  \/ K
  \/ FillRatio

Spec == Init /\ [][Next]_vars

\* construction with any arguments, followed by the operations that do not
\* insert
InitCtor == Unconstructed

NextCtor ==
  \/ \E h \in Hints \cup BadHints, f \in Rates \cup BadRates,
        q \in Ratios \cup BadRatios : NewScalableBloomFilter(h, f, q)
  \/ Reset
  \/ Capacity
  \/ K

SpecCtor == InitCtor /\ [][NextCtor]_vars

----------------------------------------------------------------------------
(* Shorthands of the properties *)

Last(fs) == fs[Len(fs)]

\* the last operation inserted an element
Inserted == op.name \in {"Add", "TestAndAdd"}

\* the last operation appended a filter and inserted into it
JustGrew == Inserted /\ Len(filters) >= 2 /\ Last(filters).n = 1

----------------------------------------------------------------------------
\* C1: no false negatives. Every element added since construction or the
\* last Reset tests true, whatever was added and however often the series
\* grew in between.
C1_NoFalseNegatives == \A e \in added : TestResult(filters, e)

\* an added element that only a superseded filter still reports
C1_Witness ==
  \E e \in added :
    /\ Len(filters) >= 2
    /\ ~PbfTest(Last(filters), e)
    /\ \E other \in added : other # e

\* C2: growth trigger. An Add that starts with the last filter's estimated
\* fill ratio >= p (equality included) appends exactly one filter, so the
\* capacity increases, leaves the filters that existed untouched and inserts
\* the element into the new filter.
C2_GrowthTrigger ==
  [][(op'.name \in {"Add", "TestAndAdd"}
        /\ RLe(p, PbfEstimatedFillRatio(Last(filters))))
       => /\ Len(filters') = Len(filters) + 1
          /\ CapacityOf(filters') > CapacityOf(filters)
          /\ \A i \in 1..Len(filters) : filters'[i] = filters[i]
          /\ Last(filters').n = 1
          /\ PbfTest(Last(filters'), op'.data)]_vars

\* a filter was appended by an Add that found the last filter exactly at p
C2_Witness ==
  /\ JustGrew
  /\ REq(p, PbfEstimatedFillRatio(filters[Len(filters) - 1]))

\* C3: geometric target rates. The filter at 0-based index i was constructed
\* with rate fp * r^i, and the rates strictly decrease along the series.
C3_GeometricRates ==
  \A i \in 1..Len(filters) :
    /\ filters[i].fpRate[1] * (fp[2] * r[2] ^ (i - 1))
         = (fp[1] * r[1] ^ (i - 1)) * filters[i].fpRate[2]
    /\ i > 1 => RLt(filters[i].fpRate, filters[i - 1].fpRate)

C3_Witness == Len(filters) >= 3 /\ ~REq(filters[3].fpRate, filters[2].fpRate)

\* C4: TestAndAdd returns what Test returns on the state it starts from, and
\* leaves the state that Test followed by Add leaves.
C4_TestAndAddEquivalence ==
  [][op'.name = "TestAndAdd"
       => /\ op'.ret = TestResult(filters, op'.data)
          /\ filters' = AddResult(filters, op'.data)
          /\ UNCHANGED <<r, fp, p, hint>>]_vars

\* TestAndAdd answered false for the element it then inserted, into a
\* filter it appended
C4_Witness ==
  /\ op.name = "TestAndAdd"
  /\ op.ret = FALSE
  /\ TestResult(filters, op.data)
  /\ Len(filters) >= 2 /\ Last(filters).n = 1

\* C5: after Reset the series is one empty filter built with the size hint
\* and the rate fp, its capacity is that of a new series, and no element
\* added before the Reset tests true.
C5_ResetRestoresInitialShape ==
  op.name = "Reset"
    => /\ Len(filters) = 1
       /\ filters[1] = NewPartitionedBloomFilter(hint, fp)
       /\ CapacityOf(filters) = PbfCapacity(NewPartitionedBloomFilter(hint, fp))
       /\ \A e \in op.data : ~TestResult(filters, e)

C5_Witness == op.name = "Reset" /\ Cardinality(op.data) >= 2

\* C6: without Reset the capacity never decreases, and an operation
\* increases it exactly when it appends a filter.
C6_MonotonicCapacity ==
  [][op'.name # "Reset"
       => /\ CapacityOf(filters') >= CapacityOf(filters)
          /\ (CapacityOf(filters') > CapacityOf(filters))
               <=> (Len(filters') > Len(filters))]_vars

C6_Witness ==
  /\ JustGrew
  /\ CapacityOf(filters) > PbfCapacity(filters[1])
  /\ Len(filters) = 3

\* C7: a series with arguments outside the documented constraints is never
\* constructed.
C7_ConstructionValidation ==
  filters # <<>> => ValidParams(hint, fp, r)

\* C8: Test is true exactly when some filter of the series reports the
\* element.
C8_TestIsDisjunction ==
  /\ \A e \in Elems :
       TestResult(filters, e) <=> \E i \in 1..Len(filters) : PbfTest(filters[i], e)
  /\ op.name = "Test"
       => (op.ret <=> \E i \in 1..Len(filters) : PbfTest(filters[i], op.data))

\* Test answered true although the first filter does not report the element
C8_Witness ==
  /\ op.name = "Test"
  /\ op.ret = TRUE
  /\ ~PbfTest(filters[1], op.data)

\* C9: K returns the hash count of the first filter, and no operation
\* changes the value K returns.
C9_HashCountUnchanged ==
  /\ [](op.name = "K" => op.ret = filters[1].k)
  /\ [][KOf(filters') = KOf(filters)]_vars

\* K was called on a series whose last filter has another hash count
C9_Witness ==
  /\ op.name = "K"
  /\ Len(filters) >= 2
  /\ Last(filters).k # op.ret

\* the filters' fill ratios over the common denominator Denom(Len(fs))
RECURSIVE Denom(_, _)
Denom(fs, i) == IF i = 0 THEN 1 ELSE Denom(fs, i - 1) * PbfFillRatio(fs[i])[2]

RECURSIVE Numer(_, _)
Numer(fs, i) ==
  IF i = 0 THEN 0
  ELSE Numer(fs, i - 1)
         + PbfFillRatio(fs[i])[1]
             * (Denom(fs, Len(fs)) \div PbfFillRatio(fs[i])[2])

\* the mean of the fill ratios weighted by the filters' capacities
RECURSIVE WeightedNumer(_, _)
WeightedNumer(fs, i) ==
  IF i = 0 THEN 0
  ELSE WeightedNumer(fs, i - 1)
         + PbfCapacity(fs[i]) * PbfFillRatio(fs[i])[1]
             * (Denom(fs, Len(fs)) \div PbfFillRatio(fs[i])[2])

WeightedMean(fs) ==
  <<WeightedNumer(fs, Len(fs)), Denom(fs, Len(fs)) * CapacityOf(fs)>>

\* C10: FillRatio returns the sum of the filters' fill ratios divided by the
\* number of filters, which is never zero.
C10_FillRatioUnweightedMean ==
  /\ Len(filters) > 0
  /\ op.name = "FillRatio"
       => op.ret[1] * (Denom(filters, Len(filters)) * Len(filters))
            = Numer(filters, Len(filters)) * op.ret[2]

\* FillRatio was called where the capacity-weighted mean is another number
C10_Witness ==
  /\ op.name = "FillRatio"
  /\ Len(filters) >= 2
  /\ ~REq(op.ret, WeightedMean(filters))

----------------------------------------------------------------------------
\* the same filter object, possibly with more elements inserted
SameFilter(f, g) ==
  /\ f.fpRate = g.fpRate /\ f.m = g.m /\ f.k = g.k /\ f.s = g.s
  /\ f.n <= g.n
  /\ \A j \in 1..f.k : f.partitions[j] \subseteq g.partitions[j]

\* C11: the series always holds at least one filter, so filters[0] (K) and
\* filters[len-1] (Add) are in range.
C11_NeverEmpty ==
  /\ Len(filters) >= 1
  /\ 1 \in DOMAIN filters
  /\ Len(filters) \in DOMAIN filters

\* the series right after a Reset that discarded elements
C11_Witness ==
  /\ op.name = "Reset"
  /\ op.data # {}
  /\ Len(filters) = 1
  /\ filters[1].n = 0

\* C12: an Add appends a filter exactly when it starts with the last filter's
\* estimated fill ratio >= p; otherwise the number of filters is unchanged;
\* no Add appends more than one filter.
C12_AppendOnlyWhenFull ==
  [][op'.name \in {"Add", "TestAndAdd"}
       => /\ (Len(filters') = Len(filters) + 1)
               <=> RLe(p, PbfEstimatedFillRatio(Last(filters)))
          /\ ~RLe(p, PbfEstimatedFillRatio(Last(filters)))
               => Len(filters') = Len(filters)
          /\ Len(filters') <= Len(filters) + 1]_vars

\* an Add inserted into a filter that already held an element
C12_Witness == Inserted /\ Last(filters).n >= 2

\* C13: an Add inserts into exactly one filter, the last one after the
\* optional append, and no operation but Reset changes a filter that is not
\* the last.
C13_AddWritesOnlyLast ==
  [][/\ op'.name \in {"Add", "TestAndAdd"}
          => /\ \A i \in 1..(Len(filters') - 1) :
                  i <= Len(filters) /\ filters'[i] = filters[i]
             /\ Last(filters') =
                  PbfAdd(IF Len(filters') = Len(filters)
                           THEN Last(filters)
                           ELSE NewPartitionedBloomFilter(
                                  hint, Last(filters').fpRate),
                         op'.data)
     /\ op'.name # "Reset"
          => \A i \in 1..(Len(filters) - 1) :
               i <= Len(filters') /\ filters'[i] = filters[i]]_vars

\* an Add inserted an element that the filter before the last does not hold
C13_Witness ==
  /\ op.name = "Add"
  /\ Len(filters) >= 2
  /\ ~PbfTest(filters[Len(filters) - 1], op.data)

\* C14: without Reset the number of filters never decreases and the filters
\* before an operation are, in order, the first filters after it; Reset
\* leaves a single filter.
C14_AppendOnlyGrowth ==
  [][/\ op'.name # "Reset"
          => /\ Len(filters') >= Len(filters)
             /\ \A i \in 1..Len(filters) : SameFilter(filters[i], filters'[i])
     /\ Len(filters') < Len(filters) => op'.name = "Reset"
     /\ op'.name = "Reset" => Len(filters') = 1]_vars

\* three filters, the last of which was inserted into more than once
C14_Witness ==
  /\ Inserted
  /\ Len(filters) = 3
  /\ Last(filters).n >= 2

----------------------------------------------------------------------------
\* the filter as it was before its latest insertion
BeforeLastInsert(f) == [f EXCEPT !.n = f.n - 1]

\* C16: every filter that is not the last has an estimated fill ratio >= p,
\* and every filter received its latest insertion while its estimate was
\* below p, so no filter is more than one insertion past the threshold.
C16_SupersededAreFull ==
  /\ \A i \in 1..(Len(filters) - 1) :
       RLe(p, PbfEstimatedFillRatio(filters[i]))
  /\ \A i \in 1..Len(filters) :
       filters[i].n >= 1
         => RLt(PbfEstimatedFillRatio(BeforeLastInsert(filters[i])), p)
  /\ \A i \in 2..Len(filters) : filters[i].n >= 1

\* a superseded filter strictly above the threshold, and a full last filter
C16_Witness ==
  /\ Len(filters) >= 2
  /\ RLt(p, PbfEstimatedFillRatio(filters[1]))
  /\ RLe(p, PbfEstimatedFillRatio(Last(filters)))

\* C17: Test, Capacity, K and FillRatio change neither the filters nor the
\* parameters; Test appends nothing even when the last filter is full.
C17_QueriesReadOnly ==
  [][op'.name \in {"Test", "Capacity", "K", "FillRatio"}
       => UNCHANGED <<filters, r, fp, p, hint>>]_vars

\* Test was called on a series whose last filter is full
C17_Witness ==
  /\ op.name = "Test"
  /\ RLe(p, PbfEstimatedFillRatio(Last(filters)))
  /\ Len(filters) < MaxFilters

\* C18: no operation changes fp, r, p or hint; every filter of the series
\* has the shape the size hint gives for its rate; a Reset that follows a
\* Reset changes nothing.
C18_ParametersImmutable ==
  /\ [][UNCHANGED <<r, fp, p, hint>>]_vars
  /\ [](\A i \in 1..Len(filters) :
          LET g == NewPartitionedBloomFilter(hint, filters[i].fpRate)
          IN filters[i].m = g.m /\ filters[i].k = g.k /\ filters[i].s = g.s)
  /\ [][(op.name = "Reset" /\ op'.name = "Reset") => filters' = filters]_vars

\* a Reset of a series into which nothing had been inserted since the last
\* Reset or construction
C18_Witness ==
  /\ op.name = "Reset"
  /\ op.data = {}
  /\ hint = 2

----------------------------------------------------------------------------
(* Two unsynchronised Add calls, one step per shared-memory access *)

\* having started and not yet returned
InFlight(c) == calls.pc[c] \notin {"idle", "check", "done"}

\* what a step of caller c does to the bookkeeping of the two calls
Step(c, pc, idx, n, sl, grew) ==
  [calls EXCEPT !.pc[c] = pc, !.idx[c] = idx, !.n[c] = n, !.sl[c] = sl,
                !.grew[c] = grew,
                !.overlap = calls.overlap \/ InFlight(Other(c))]

\* two goroutines call s.Add(d1) and s.Add(d2) on a series that sequential
\* Adds have brought to its current state
StartAdds(d1, d2) ==
  /\ filters # <<>>
  /\ Len(filters) < MaxFilters
  /\ calls = NoCalls
  /\ calls' = [calls EXCEPT !.pc = <<"check", "check">>,
                            !.data = <<d1, d2>>,
                            !.start = filters]
  /\ UNCHANGED <<filters, r, fp, p, hint, added, op>>

\* lines 110-113: idx := len(s.filters) - 1 and the test of filters[idx]
ConcCheck(c) ==
  /\ calls.pc[c] = "check"
  /\ calls' = Step(c, IF LastIsFull(filters) THEN "len" ELSE "insert",
                   Len(filters), 0, <<>>, FALSE)
  /\ UNCHANGED <<filters, r, fp, p, hint, added, op>>

\* line 141: the read of len(s.filters) for the exponent
ConcReadLen(c) ==
  /\ calls.pc[c] = "len"
  /\ calls' = Step(c, "slice", calls.idx[c], Len(filters), <<>>, FALSE)
  /\ UNCHANGED <<filters, r, fp, p, hint, added, op>>

\* line 142: the read of s.filters that append works on
ConcReadSlice(c) ==
  /\ calls.pc[c] = "slice"
  /\ calls' = Step(c, "write", calls.idx[c], calls.n[c], filters, FALSE)
  /\ UNCHANGED <<filters, r, fp, p, hint, added, op>>

\* the append without the idx++ of line 115
ConcWrite_noIdxInc(c) ==
  /\ calls.pc[c] = "write"
  /\ filters' = Append(calls.sl[c],
                       NewPartitionedBloomFilter(
                         hint, RMul(fp, Pow(r, calls.n[c]))))
  /\ calls' = Step(c, "insert", calls.idx[c], 0, <<>>, TRUE)
  /\ UNCHANGED <<r, fp, p, hint, added, op>>

\* line 142: the assignment of the appended slice to s.filters, and the
\* idx++ of line 115
ConcWrite(c) ==
  /\ calls.pc[c] = "write"
  /\ filters' = Append(calls.sl[c],
                       NewPartitionedBloomFilter(
                         hint, RMul(fp, Pow(r, calls.n[c]))))
  /\ calls' = Step(c, "insert", calls.idx[c] + 1, 0, <<>>, TRUE)
  /\ UNCHANGED <<r, fp, p, hint, added, op>>

\* line 118: s.filters[idx].Add(data)
ConcInsert(c) ==
  /\ calls.pc[c] = "insert"
  /\ calls.idx[c] \in DOMAIN filters
  /\ filters' = [filters EXCEPT ![calls.idx[c]] =
                                  PbfAdd(filters[calls.idx[c]], calls.data[c])]
  /\ added' = added \cup {calls.data[c]}
  /\ calls' = Step(c, "done", 0, 0, <<>>, calls.grew[c])
  /\ UNCHANGED <<r, fp, p, hint, op>>

\* sequential Adds until the two calls start, then their steps in any order
NextConc ==
  \/ \E data \in Elems : calls = NoCalls /\ Add(data)
  \/ \E d1 \in Elems, d2 \in Elems : d1 <= d2 /\ StartAdds(d1, d2)
  \/ \E c \in Callers : ConcCheck(c)
  \/ \E c \in Callers : ConcReadLen(c)
  \/ \E c \in Callers : ConcReadSlice(c)
  \/ \E c \in Callers : ConcWrite(c)
  \/ \E c \in Callers : ConcInsert(c)

SpecConc == Init /\ [][NextConc]_vars

----------------------------------------------------------------------------
\* both calls have returned
BothDone == calls.pc = <<"done", "done">>

\* the states the two calls leave when one runs after the other
SequentialOutcomes ==
  {AddResult(AddResult(calls.start, calls.data[1]), calls.data[2]),
   AddResult(AddResult(calls.start, calls.data[2]), calls.data[1])}

Corrupted == BothDone /\ filters \notin SequentialOutcomes

\* both calls appended, and the two new filters have the same target rate
DoubleAppend ==
  /\ calls.grew = <<TRUE, TRUE>>
  /\ Len(filters) = Len(calls.start) + 2
  /\ REq(Last(filters).fpRate, filters[Len(filters) - 1].fpRate)

\* both calls appended, and only one new filter is in the series
LostAppend ==
  /\ calls.grew = <<TRUE, TRUE>>
  /\ Len(filters) = Len(calls.start) + 1

C15_WitnessLostAppend == Corrupted /\ LostAppend

\* both calls appended one after the other: the two new filters have
\* different exponents and the last one is empty
C15_WitnessEmptyLastFilter ==
  /\ Corrupted
  /\ calls.grew = <<TRUE, TRUE>>
  /\ Len(filters) = Len(calls.start) + 2
  /\ RLt(Last(filters).fpRate, filters[Len(filters) - 1].fpRate)
  /\ Last(filters).n = 0

\* an element whose Add returned is no longer reported
C15_WitnessFalseNegative ==
  /\ BothDone
  /\ \E e \in added : ~TestResult(filters, e)

====
